---- MODULE Spec2Model ----
(***************************************************************************)
(* Byte-level BPE tokenizer (src/bpe_tokenizer.py, BPETokenizer, and its   *)
(* copy in src/huggingface_files/app.py).                                  *)
(*                                                                         *)
(* A character is its code point (a natural number), a Python str is a     *)
(* sequence of code points, a token is a str, a word is a tuple of tokens. *)
(* The end-of-word marker '</w>' is the four-character str <<60,47,119,62>>*)
(* exactly as in the source, where it is an ordinary Python string.        *)
(***************************************************************************)
EXTENDS Integers, Sequences, FiniteSets, TLC

VARIABLES
    tok,        \* tok[k]: the fields of BPETokenizer instance k
    fr,         \* fr[th]: where thread th is, and the locals of the method it runs
                \* (rounds counts the iterations of _tokenize_word's while loop)
    trained,    \* trained[k]: how many times train was called on instance k
    disk,       \* <<data>>, the dict in the pickle file save wrote, or None
    ret         \* what the last call returned: method, thread, instance, argument,
                \* value; NoReturn while a call is under way

vars == <<tok, fr, trained, disk, ret>>

(***************************************************************************)
(* Bounds of the model.                                                    *)
(***************************************************************************)
MaxTextLen == 2      \* longest text drawn exhaustively over Letters
MaxTarget == 5       \* largest small vocab_size given to the constructor
MaxId == 3           \* largest token id given to decode
MaxTrains == 2       \* most train calls on one instance
MaxShuffled == 3     \* largest set whose iteration orders are all tried

DefaultVocabSize == 5000

Instances == {1, 2}

Threads == {1, 2}

(***************************************************************************)
(* Characters and strings.                                                 *)
(***************************************************************************)
\* code points of the characters the texts below use
ch == [a |-> 97, b |-> 98, space |-> 32, lt |-> 60, slash |-> 47, w |-> 119,
       gt |-> 62, eacute |-> 233]

Replacement == 65533     \* U+FFFD, what errors='replace' substitutes

EOW == <<ch.lt, ch.slash, ch.w, ch.gt>>     \* '</w>'

Letters == {ch.a, ch.b}

RECURSIVE SeqsUpTo(_, _)
SeqsUpTo(S, n) ==
    IF n = 0 THEN {<<>>}
    ELSE LET shorter == SeqsUpTo(S, n - 1)
         IN  shorter \cup {Append(s, x) : s \in {t \in shorter : Len(t) = n - 1}, x \in S}

SpecialTexts ==
    { <<ch.a, ch.a, ch.a, ch.b>>,            \* "aaab"
      <<ch.a, ch.space, ch.b>>,              \* "a b"
      <<ch.lt, ch.slash, ch.w, ch.gt>>,      \* "</w>"
      <<ch.eacute>> }                        \* one two-byte character

Texts == SeqsUpTo(Letters, MaxTextLen) \cup SpecialTexts

\* the corpora of no text, of one text and of two texts
Corpora == {<<>>} \cup {<<t>> : t \in Texts} \cup {<<t, u>> : t, u \in Texts}

VocabSizes == ((MaxTarget - 2)..MaxTarget) \cup {DefaultVocabSize}

RECURSIVE Join(_)
Join(ss) == IF ss = <<>> THEN <<>> ELSE Head(ss) \o Join(Tail(ss))

Range(s) == {s[j] : j \in 1..Len(s)}

Max2(x, y) == IF x >= y THEN x ELSE y

\* Python's str < str: lexicographic on code points.
RECURSIVE StrLess(_, _)
StrLess(s, t) ==
    IF t = <<>> THEN FALSE
    ELSE IF s = <<>> THEN TRUE
    ELSE IF Head(s) # Head(t) THEN Head(s) < Head(t)
    ELSE StrLess(Tail(s), Tail(t))

\* list insertion keeping ascending order
RECURSIVE Insert(_, _)
Insert(x, s) ==
    IF s = <<>> THEN <<x>>
    ELSE IF StrLess(x, Head(s)) THEN <<x>> \o s
    ELSE <<Head(s)>> \o Insert(x, Tail(s))

RECURSIVE sorted(_)
sorted(s) == IF s = <<>> THEN <<>> ELSE Insert(Head(s), sorted(Tail(s)))

RECURSIVE Enumerations(_)
Enumerations(S) ==
    IF S = {} THEN {<<>>}
    ELSE UNION {{<<x>> \o e : e \in Enumerations(S \ {x})} : x \in S}

RECURSIVE Ascending(_)
Ascending(S) ==
    IF S = {} THEN <<>>
    ELSE LET x == CHOOSE x \in S : \A y \in S \ {x} : StrLess(x, y)
         IN  <<x>> \o Ascending(S \ {x})

Reverse(s) == [j \in 1..Len(s) |-> s[Len(s) + 1 - j]]

\* The orders in which iterating a Python set of str can yield its elements
\* (str hashes differ from process to process): every order of a set of at
\* most MaxShuffled elements; of a larger set, two opposite orders.
SetOrders(S) ==
    {Ascending(S), Reverse(Ascending(S))}
        \cup (IF Cardinality(S) <= MaxShuffled THEN Enumerations(S) ELSE {})

(***************************************************************************)
(* text.encode('utf-8') and bytes.decode('utf-8', errors='replace'), for   *)
(* code points below 2048 (one- and two-byte sequences).                   *)
(***************************************************************************)
RECURSIVE utf8_encode(_)
utf8_encode(text) ==
    IF text = <<>> THEN <<>>
    ELSE LET c == Head(text)
         IN  (IF c < 128 THEN <<c>> ELSE <<192 + (c \div 64), 128 + (c % 64)>>)
             \o utf8_encode(Tail(text))

IsContinuation(b) == b >= 128 /\ b <= 191

RECURSIVE utf8_decode(_)
utf8_decode(bs) ==
    IF bs = <<>> THEN <<>>
    ELSE LET b == Head(bs)
         IN  IF b < 128 THEN <<b>> \o utf8_decode(Tail(bs))
             ELSE IF b >= 194 /\ b <= 223 /\ Len(bs) >= 2 /\ IsContinuation(bs[2])
                  THEN <<(b - 192) * 64 + (bs[2] - 128)>> \o utf8_decode(Tail(Tail(bs)))
             ELSE <<Replacement>> \o utf8_decode(Tail(bs))

(***************************************************************************)
(* _bytes_to_unicode                                                       *)
(***************************************************************************)
\* The table has an entry for each of the 256 byte values; the model keeps the
\* entries of the bytes that the UTF-8 encodings of its texts contain, with the
\* values they have in the whole table.
AllBytes == 0..255

Bytes == UNION {Range(utf8_encode(text)) : text \in Texts}

Printable == (33..126) \cup (161..172) \cup (174..255)

_bytes_to_unicode ==
    [b \in Bytes |->
        IF b \in Printable THEN b
        ELSE 256 + Cardinality({x \in AllBytes \ Printable : x < b})]

Inverse(f) ==
    [c \in {f[b] : b \in DOMAIN f} |-> CHOOSE b \in DOMAIN f : f[b] = c]

\* ''.join(self.byte_encoder[b] for b in text.encode('utf-8'))
ToUnicode(t, text) ==
    LET bs == utf8_encode(text) IN [j \in 1..Len(bs) |-> t.byte_encoder[bs[j]]]

(***************************************************************************)
(* re.findall(r'\S+|\s+', s): the maximal runs of whitespace and of        *)
(* non-whitespace characters, in order.                                    *)
(***************************************************************************)
IsSpace(c) == c \in {9, 10, 11, 12, 13, 28, 29, 30, 31, 32, 133, 160}

RECURSIVE RunEnd(_, _)
\* last index of the run that starts at index j of s
RunEnd(s, j) ==
    IF j < Len(s) /\ IsSpace(s[j + 1]) = IsSpace(s[j]) THEN RunEnd(s, j + 1) ELSE j

RECURSIVE findall(_)
findall(s) ==
    IF s = <<>> THEN <<>>
    ELSE LET e == RunEnd(s, 1)
         IN  <<SubSeq(s, 1, e)>> \o findall(SubSeq(s, e + 1, Len(s)))

\* tuple(list(word) + ['</w>'])
WordTuple(word) == [j \in 1..Len(word) |-> <<word[j]>>] \o <<EOW>>

(***************************************************************************)
(* Python dict / Counter: a sequence of [key, val] entries in insertion    *)
(* order, keys unique.                                                     *)
(***************************************************************************)
HasKey(d, key) == \E j \in 1..Len(d) : d[j].key = key

Get(d, key) == d[CHOOSE j \in 1..Len(d) : d[j].key = key].val

\* d[key] = val
DictSet(d, key, val) ==
    IF HasKey(d, key)
    THEN [j \in 1..Len(d) |-> IF d[j].key = key THEN [key |-> key, val |-> val] ELSE d[j]]
    ELSE Append(d, [key |-> key, val |-> val])

\* counter[key] += n
CounterAdd(d, key, n) == DictSet(d, key, (IF HasKey(d, key) THEN Get(d, key) ELSE 0) + n)

Keys(d) == {d[j].key : j \in 1..Len(d)}

(***************************************************************************)
(* _get_stats                                                              *)
(***************************************************************************)
RECURSIVE CountWord(_, _, _, _)
\* for i in range(len(word) - 1): pairs[(word[i], word[i+1])] += freq
CountWord(pairs, word, freq, i) ==
    IF i > Len(word) - 1 THEN pairs
    ELSE CountWord(CounterAdd(pairs, <<word[i], word[i + 1]>>, freq), word, freq, i + 1)

RECURSIVE CountWords(_, _, _)
CountWords(pairs, word_freqs, j) ==
    IF j > Len(word_freqs) THEN pairs
    ELSE CountWords(CountWord(pairs, word_freqs[j].key, word_freqs[j].val, 1),
                    word_freqs, j + 1)

_get_stats(word_freqs) == CountWords(<<>>, word_freqs, 1)

\* max(pairs, key=pairs.get) taking the last key of maximal count
MaxKeyLast(pairs) ==
    LET best == CHOOSE j \in 1..Len(pairs) :
                    /\ \A m \in 1..Len(pairs) : pairs[m].val <= pairs[j].val
                    /\ \A m \in (j + 1)..Len(pairs) : pairs[m].val < pairs[j].val
    IN  pairs[best].key

\* max(pairs, key=pairs.get): the first key, in iteration order, of maximal count
MaxKey(pairs) ==
    LET best == CHOOSE j \in 1..Len(pairs) :
                    /\ \A m \in 1..Len(pairs) : pairs[m].val <= pairs[j].val
                    /\ \A m \in 1..(j - 1) : pairs[m].val < pairs[j].val
    IN  pairs[best].key

(***************************************************************************)
(* _merge_vocab                                                            *)
(***************************************************************************)
RECURSIVE MergedWord(_, _, _)
\* the while loop of lines 78-86, from position i on
MergedWord(word, pair, i) ==
    IF i > Len(word) THEN <<>>
    ELSE IF i < Len(word) /\ word[i] = pair[1] /\ word[i + 1] = pair[2]
         THEN <<pair[1] \o pair[2]>> \o MergedWord(word, pair, i + 2)
         ELSE <<word[i]>> \o MergedWord(word, pair, i + 1)

RECURSIVE MergeFrom(_, _, _, _)
MergeFrom(new_word_freqs, pair, word_freqs, j) ==
    IF j > Len(word_freqs) THEN new_word_freqs
    ELSE MergeFrom(DictSet(new_word_freqs, MergedWord(word_freqs[j].key, pair, 1),
                           word_freqs[j].val),
                   pair, word_freqs, j + 1)

_merge_vocab(pair, word_freqs) == MergeFrom(<<>>, pair, word_freqs, 1)

(***************************************************************************)
(* _tokenize_word                                                          *)
(***************************************************************************)
\* Python's None, where a tuple or a file would be
None == <<>>

\* self.merges.index(pair), 1-based: the first position holding pair
Index(merges, pair) ==
    CHOOSE j \in 1..Len(merges) :
        merges[j] = pair /\ \A m \in 1..(j - 1) : merges[m] # pair

\* lines 177-188 taking the first adjacent pair found in merges, whatever its index
BestPairLeftmost(merges, word) ==
    LET cand == {i \in 1..(Len(word) - 1) :
                    \E j \in 1..Len(merges) : merges[j] = <<word[i], word[i + 1]>>}
    IN  IF cand = {} THEN None
        ELSE LET i == CHOOSE i \in cand : \A m \in cand : i <= m
             IN  <<word[i], word[i + 1]>>

\* lines 177-188: the adjacent pair of word with the smallest merge index
BestPair(merges, word) ==
    LET cand == {i \in 1..(Len(word) - 1) :
                    \E j \in 1..Len(merges) : merges[j] = <<word[i], word[i + 1]>>}
    IN  IF cand = {} THEN None
        ELSE LET i == CHOOSE i \in cand :
                          \A m \in cand :
                              Index(merges, <<word[i], word[i + 1]>>)
                                  <= Index(merges, <<word[m], word[m + 1]>>)
             IN  <<word[i], word[i + 1]>>

RECURSIVE ApplyMergeSlow(_, _, _)
\* lines 194-203 with i += 1 in place of the i += 2 of line 198
ApplyMergeSlow(word, best_pair, i) ==
    IF i > Len(word) THEN <<>>
    ELSE IF i < Len(word) /\ word[i] = best_pair[1] /\ word[i + 1] = best_pair[2]
         THEN <<Join(best_pair)>> \o ApplyMergeSlow(word, best_pair, i + 1)
         ELSE <<word[i]>> \o ApplyMergeSlow(word, best_pair, i + 1)

RECURSIVE ApplyMerge(_, _, _)
\* lines 194-203: one left-to-right pass replacing best_pair, from position i on
ApplyMerge(word, best_pair, i) ==
    IF i > Len(word) THEN <<>>
    ELSE IF i < Len(word) /\ word[i] = best_pair[1] /\ word[i + 1] = best_pair[2]
         THEN <<Join(best_pair)>> \o ApplyMerge(word, best_pair, i + 2)
         ELSE <<word[i]>> \o ApplyMerge(word, best_pair, i + 1)

\* the loop condition of lines 176 and 190
MoreMerges(merges, word) == Len(word) > 1 /\ BestPair(merges, word) # None

\* one iteration of the while loop of line 176
MergeStep(merges, word) == ApplyMerge(word, BestPair(merges, word), 1)

RECURSIVE MergeLoop(_, _)
MergeLoop(merges, word) ==
    IF MoreMerges(merges, word) THEN MergeLoop(merges, MergeStep(merges, word)) ELSE word

_tokenize_word(t, word) == MergeLoop(t.merges, WordTuple(word))

(***************************************************************************)
(* encode                                                                  *)
(***************************************************************************)
RECURSIVE FallbackIds(_, _)
\* lines 233-235: for char in token: if char in self.vocab: append its id
FallbackIds(vocab, token) ==
    IF token = <<>> THEN <<>>
    ELSE (IF HasKey(vocab, <<Head(token)>>) THEN <<Get(vocab, <<Head(token)>>)>> ELSE <<>>)
         \o FallbackIds(vocab, Tail(token))

RECURSIVE TokenIds(_, _)
\* lines 228-235 over the tokens of one word
TokenIds(vocab, tokens) ==
    IF tokens = <<>> THEN <<>>
    ELSE (IF HasKey(vocab, Head(tokens)) THEN <<Get(vocab, Head(tokens))>>
          ELSE FallbackIds(vocab, Head(tokens)))
         \o TokenIds(vocab, Tail(tokens))

RECURSIVE EncodeWords(_, _)
EncodeWords(t, words) ==
    IF words = <<>> THEN <<>>
    ELSE TokenIds(t.vocab, _tokenize_word(t, Head(words))) \o EncodeWords(t, Tail(words))

encode(t, text) == EncodeWords(t, findall(ToUnicode(t, text)))

(***************************************************************************)
(* decode                                                                  *)
(***************************************************************************)
\* {idx: token for token, idx in self.vocab.items()}: the last token wins an id
id_to_token(vocab) ==
    [n \in {vocab[j].val : j \in 1..Len(vocab)} |->
        vocab[CHOOSE j \in 1..Len(vocab) :
                  vocab[j].val = n /\ \A m \in (j + 1)..Len(vocab) : vocab[m].val # n].key]

RECURSIVE KnownTokensUntilUnknown(_, _)
\* line 256 giving up at the first id that is not in id_to_token
KnownTokensUntilUnknown(inv, token_ids) ==
    IF token_ids = <<>> \/ Head(token_ids) \notin DOMAIN inv THEN <<>>
    ELSE <<inv[Head(token_ids)]>> \o KnownTokensUntilUnknown(inv, Tail(token_ids))

RECURSIVE KnownTokens(_, _)
\* [id_to_token[tid] for tid in token_ids if tid in id_to_token]
KnownTokens(inv, token_ids) ==
    IF token_ids = <<>> THEN <<>>
    ELSE (IF Head(token_ids) \in DOMAIN inv THEN <<inv[Head(token_ids)]>> ELSE <<>>)
         \o KnownTokens(inv, Tail(token_ids))

IsPrefix(p, s) == Len(p) <= Len(s) /\ SubSeq(s, 1, Len(p)) = p

RECURSIVE Remove(_, _)
\* s.replace(p, ''): occurrences found left to right, not overlapping
Remove(s, p) ==
    IF s = <<>> THEN <<>>
    ELSE IF IsPrefix(p, s) THEN Remove(SubSeq(s, Len(p) + 1, Len(s)), p)
    ELSE <<Head(s)>> \o Remove(Tail(s), p)

decode(t, token_ids) ==
    LET tokens == KnownTokens(id_to_token(t.vocab), token_ids)
        text_unicode == Remove(Join(tokens), EOW)
    IN  IF \A j \in 1..Len(text_unicode) : text_unicode[j] \in DOMAIN t.byte_decoder
        THEN utf8_decode([j \in 1..Len(text_unicode) |-> t.byte_decoder[text_unicode[j]]])
        ELSE text_unicode

(***************************************************************************)
(* calculate_compression_ratio: total_bytes / total_tokens as a fraction,  *)
(* and 0.0 as 0/1.                                                         *)
(***************************************************************************)
RECURSIVE Sum(_)
Sum(s) == IF s = <<>> THEN 0 ELSE Head(s) + Sum(Tail(s))

calculate_compression_ratio(t, texts) ==
    LET total_bytes == Sum([j \in 1..Len(texts) |-> Len(utf8_encode(texts[j]))])
        total_tokens == Sum([j \in 1..Len(texts) |-> Len(encode(t, texts[j]))])
    IN  IF total_tokens = 0 THEN <<0, 1>> ELSE <<total_bytes, total_tokens>>

(***************************************************************************)
(* State.                                                                  *)
(***************************************************************************)
\* __init__
New(vocab_size) ==
    [vocab_size |-> vocab_size,
     vocab |-> <<>>,
     merges |-> <<>>,
     byte_encoder |-> _bytes_to_unicode,
     byte_decoder |-> Inverse(_bytes_to_unicode)]

NoFrame ==
    [pc |-> "idle", self |-> 0,
     texts |-> <<>>, word_freqs |-> <<>>, base_size |-> 0, num_merges |-> 0, i |-> 0,
     text |-> <<>>, words |-> <<>>, word |-> None, rounds |-> 0, token_ids |-> <<>>]

NoReturn == [op |-> "none", th |-> 0, self |-> 0, arg |-> <<>>, val |-> <<>>]

\* thread th is between calls (or has yet to load its instance, app.py:116-117)
Idle(th) == fr[th].pc = "idle"

Unloaded(th) == fr[th].pc = "start"

\* no thread is inside a method of instance k
Quiet(k) == \A th \in Threads : fr[th].pc # "idle" => fr[th].self # k

\* no thread is inside train on instance k
NotTraining(k) == \A th \in Threads : fr[th].pc = "train" => fr[th].self # k

InitWith(sizes, pcs) ==
    /\ tok = [k \in Instances |-> New(sizes[k])]
    /\ fr = [th \in Threads |-> [NoFrame EXCEPT !.pc = pcs[th]]]
    /\ trained = [k \in Instances |-> 0]
    /\ disk = None
    /\ ret = NoReturn

(***************************************************************************)
(* train                                                                   *)
(***************************************************************************)
RECURSIVE CountTuples(_, _)
\* lines 112-115 over the words of one text
CountTuples(word_freqs, words) ==
    IF words = <<>> THEN word_freqs
    ELSE CountTuples(CounterAdd(word_freqs, WordTuple(Head(words)), 1), Tail(words))

RECURSIVE Preprocess(_, _, _)
\* lines 104-115
Preprocess(t, word_freqs, texts) ==
    IF texts = <<>> THEN word_freqs
    ELSE Preprocess(t, CountTuples(word_freqs, findall(ToUnicode(t, Head(texts)))),
                    Tail(texts))

\* lines 123-125
Symbols(word_freqs) == UNION {Range(word_freqs[j].key) : j \in 1..Len(word_freqs)}

\* {token: idx for idx, token in enumerate(tokens)}
Enumerate(tokens) == [j \in 1..Len(tokens) |-> [key |-> tokens[j], val |-> j - 1]]

\* line 128 without sorted(): ids in the set's iteration order
BaseVocabUnsorted(order) == Enumerate(order)

\* line 128 with sorted(..., reverse=True)
BaseVocabDescending(order) == Enumerate(Reverse(sorted(order)))

\* line 128
BaseVocab(order) == Enumerate(sorted(order))

\* lines 103-134
TrainBegin(th, k, texts) ==
    /\ Idle(th)
    /\ Quiet(k)
    /\ trained[k] < MaxTrains
    /\ LET word_freqs == Preprocess(tok[k], <<>>, texts)
       IN  \E order \in SetOrders(Symbols(word_freqs)) :
               LET vocab == BaseVocab(order)
               IN  /\ tok' = [tok EXCEPT ![k].vocab = vocab]
                   /\ fr' = [fr EXCEPT ![th] =
                                [NoFrame EXCEPT !.pc = "train", !.self = k,
                                                !.texts = texts,
                                                !.word_freqs = word_freqs,
                                                !.base_size = Len(vocab),
                                                !.num_merges = tok[k].vocab_size - Len(vocab),
                                                !.i = 0]]
    /\ trained' = [trained EXCEPT ![k] = @ + 1]
    /\ ret' = NoReturn
    /\ UNCHANGED disk

\* the loop of line 136 running one round too many
LoopOneMore(f) == f.i <= f.num_merges /\ _get_stats(f.word_freqs) # <<>>

\* the for loop of line 136 goes on: i is in range(num_merges) and pairs is not empty
LoopGoesOn(f) == f.i < f.num_merges /\ _get_stats(f.word_freqs) # <<>>

\* lines 152-156
Learn(t, best_pair) ==
    LET new_token == Join(best_pair)
    IN  [t EXCEPT !.merges = Append(@, best_pair),
                  !.vocab = IF HasKey(@, new_token) THEN @
                            ELSE Append(@, [key |-> new_token, val |-> Len(@)])]

\* lines 137-156: one iteration of the merge loop
MergeRound(th) ==
    /\ fr[th].pc = "train"
    /\ LoopGoesOn(fr[th])
    /\ LET k == fr[th].self
           best_pair == MaxKey(_get_stats(fr[th].word_freqs))
       IN  /\ tok' = [tok EXCEPT ![k] = Learn(@, best_pair)]
           /\ fr' = [fr EXCEPT ![th].word_freqs = _merge_vocab(best_pair, @),
                               ![th].i = @ + 1]
    /\ UNCHANGED <<trained, disk, ret>>

\* lines 158-160: the loop is over and train returns
TrainEnd(th) ==
    /\ fr[th].pc = "train"
    /\ ~LoopGoesOn(fr[th])
    /\ fr' = [fr EXCEPT ![th].pc = "idle"]
    /\ ret' = [op |-> "train", th |-> th, self |-> fr[th].self,
               arg |-> fr[th].texts, val |-> <<>>]
    /\ UNCHANGED <<tok, trained, disk>>

(***************************************************************************)
(* encode, one step at a time: a thread's calls into a shared instance     *)
(* interleave with the other thread's.                                     *)
(***************************************************************************)
\* lines 217-225
EncodeBegin(th, k, text) ==
    /\ Idle(th)
    /\ NotTraining(k)
    /\ fr' = [fr EXCEPT ![th] =
                     [NoFrame EXCEPT !.pc = "encode", !.self = k, !.text = text,
                                     !.words = findall(ToUnicode(tok[k], text))]]
    /\ ret' = NoReturn
    /\ UNCHANGED <<tok, trained, disk>>

\* line 226 and line 173: the next word, as a tuple of characters and the marker
EncodeWord(th) ==
    /\ fr[th].pc = "encode"
    /\ fr[th].word = None
    /\ fr[th].words # <<>>
    /\ fr' = [fr EXCEPT ![th].word = WordTuple(Head(fr[th].words)),
                        ![th].words = Tail(@),
                        ![th].rounds = 0]
    /\ UNCHANGED <<tok, trained, disk, ret>>

\* lines 176-203: one iteration of the while loop of _tokenize_word
TokenizeRound(th) ==
    /\ fr[th].pc = "encode"
    /\ fr[th].word # None
    /\ MoreMerges(tok[fr[th].self].merges, fr[th].word)
    /\ fr' = [fr EXCEPT ![th].word = MergeStep(tok[fr[th].self].merges, @),
                        ![th].rounds = @ + 1]
    /\ UNCHANGED <<tok, trained, disk, ret>>

\* lines 205 and 228-235 with an encode that enters the first token of the
\* word into self.vocab when it has no id
EncodeEmitRemembering(th) ==
    /\ fr[th].pc = "encode"
    /\ fr[th].word # None
    /\ ~MoreMerges(tok[fr[th].self].merges, fr[th].word)
    /\ tok' = [tok EXCEPT ![fr[th].self].vocab =
                              IF HasKey(@, Head(fr[th].word)) THEN @
                              ELSE Append(@, [key |-> Head(fr[th].word), val |-> Len(@)])]
    /\ fr' = [fr EXCEPT ![th].token_ids = @ \o TokenIds(tok'[fr[th].self].vocab, fr[th].word),
                        ![th].word = None]
    /\ UNCHANGED <<trained, disk, ret>>

\* lines 205 and 228-235: _tokenize_word returns and the tokens become ids
EncodeEmit(th) ==
    /\ fr[th].pc = "encode"
    /\ fr[th].word # None
    /\ ~MoreMerges(tok[fr[th].self].merges, fr[th].word)
    /\ fr' = [fr EXCEPT ![th].token_ids = @ \o TokenIds(tok[fr[th].self].vocab, fr[th].word),
                        ![th].word = None]
    /\ UNCHANGED <<tok, trained, disk, ret>>

\* line 237
EncodeReturn(th) ==
    /\ fr[th].pc = "encode"
    /\ fr[th].word = None
    /\ fr[th].words = <<>>
    /\ fr' = [fr EXCEPT ![th] = NoFrame]
    /\ ret' = [op |-> "encode", th |-> th, self |-> fr[th].self,
               arg |-> fr[th].text, val |-> fr[th].token_ids]
    /\ UNCHANGED <<tok, trained, disk>>

(***************************************************************************)
(* decode, calculate_compression_ratio, and the encode-then-decode check   *)
(* of evaluate_on_samples and tokenize_text.                               *)
(***************************************************************************)
Decode(th, k, token_ids) ==
    /\ Idle(th)
    /\ NotTraining(k)
    /\ ret' = [op |-> "decode", th |-> th, self |-> k,
               arg |-> token_ids, val |-> decode(tok[k], token_ids)]
    /\ UNCHANGED <<tok, fr, trained, disk>>

Ratio(th, k, texts) ==
    /\ Idle(th)
    /\ NotTraining(k)
    /\ ret' = [op |-> "calculate_compression_ratio", th |-> th, self |-> k,
               arg |-> texts, val |-> calculate_compression_ratio(tok[k], texts)]
    /\ UNCHANGED <<tok, fr, trained, disk>>

\* evaluate_on_samples, for one text: token ids, decoded text, and the match flag
Evaluate(th, k, text) ==
    /\ Idle(th)
    /\ NotTraining(k)
    /\ LET token_ids == encode(tok[k], text)
           decoded_text == decode(tok[k], token_ids)
       IN  ret' = [op |-> "evaluate", th |-> th, self |-> k, arg |-> text,
                   val |-> [token_ids |-> token_ids, decoded_text |-> decoded_text,
                            match |-> (decoded_text = text)]]
    /\ UNCHANGED <<tok, fr, trained, disk>>

(***************************************************************************)
(* save and load                                                           *)
(***************************************************************************)
\* the dict pickled by lines 290-295
Pickled(t) ==
    [vocab_size |-> t.vocab_size, vocab |-> t.vocab, merges |-> t.merges,
     byte_encoder |-> t.byte_encoder]

\* lines 301-306 without line 304: the merges are not restored
LoadedWithoutMerges(data) ==
    [vocab_size |-> data.vocab_size,
     vocab |-> data.vocab,
     merges |-> <<>>,
     byte_encoder |-> data.byte_encoder,
     byte_decoder |-> Inverse(data.byte_encoder)]

\* lines 301-306: the fields of the instance after load
Loaded(data) ==
    [vocab_size |-> data.vocab_size,
     vocab |-> data.vocab,
     merges |-> data.merges,
     byte_encoder |-> data.byte_encoder,
     byte_decoder |-> Inverse(data.byte_encoder)]

Save(th, k) ==
    /\ Idle(th)
    /\ Quiet(k)
    /\ disk' = <<Pickled(tok[k])>>
    /\ ret' = [op |-> "save", th |-> th, self |-> k, arg |-> <<>>, val |-> <<>>]
    /\ UNCHANGED <<tok, fr, trained>>

Load(th, k) ==
    /\ Idle(th) \/ Unloaded(th)
    /\ Quiet(k)
    /\ disk # None
    /\ tok' = [tok EXCEPT ![k] = Loaded(disk[1])]
    /\ fr' = [fr EXCEPT ![th].pc = "idle"]
    /\ ret' = [op |-> "load", th |-> th, self |-> k, arg |-> <<>>, val |-> <<>>]
    /\ UNCHANGED <<trained, disk>>

(***************************************************************************)
(* The program: train_bpe.py constructs instance 1, trains it on the       *)
(* corpus, measures it and saves it; evaluate_tokenizer.py and app.py      *)
(* construct instance 2 with the default size, load it, and encode and     *)
(* decode with it.                                                         *)
(***************************************************************************)
Init ==
    \E vocab_size \in VocabSizes :
        InitWith(<<vocab_size, DefaultVocabSize>>, <<"idle", "start">>)

\* train_bpe.py:49-50
TrainFresh(th, k) == \E texts \in Corpora : trained[k] = 0 /\ TrainBegin(th, k, texts)

\* the corpora of at most one text
SmallCorpora == {<<>>} \cup {<<t>> : t \in Texts}

\* train_bpe.py:49-50, on a corpus of at most one text
TrainSmall(th, k) ==
    \E texts \in SmallCorpora : trained[k] = 0 /\ TrainBegin(th, k, texts)

\* train_bpe.py:57, on the training corpus
Measure(th, k) == trained[k] > 0 /\ disk = None /\ Ratio(th, k, fr[th].texts)

\* train_bpe.py:94
SaveTrained(th, k) == trained[k] > 0 /\ disk = None /\ Save(th, k)

StartEncode(th, k) == \E text \in Texts : EncodeBegin(th, k, text)

\* the token-id lists of no id, of one id and of two ids
IdLists == {<<>>} \cup {<<n>> : n \in 0..MaxId} \cup {<<n, m>> : n, m \in 0..MaxId}

DecodeIds(th, k) == \E token_ids \in IdLists : Decode(th, k, token_ids)

EvaluateSample(th, k) == \E text \in Texts : Evaluate(th, k, text)

Next ==
    \/ TrainSmall(1, 1)
    \/ MergeRound(1)
    \/ TrainEnd(1)
    \/ Measure(1, 1)
    \/ SaveTrained(1, 1)
    \/ Load(2, 2)
    \/ StartEncode(2, 2)
    \/ EncodeWord(2)
    \/ TokenizeRound(2)
    \/ EncodeEmit(2)
    \/ EncodeReturn(2)
    \/ DecodeIds(2, 2)
    \/ EvaluateSample(2, 2)

Spec == Init /\ [][Next]_vars

(***************************************************************************)
(* Training again on an instance that was trained (the class allows it):   *)
(* on the same corpus, or on one of the special texts.                     *)
(***************************************************************************)
RetrainCorpora(th) == {fr[th].texts} \cup {<<text>> : text \in SpecialTexts}

Retrain(th, k) ==
    \E texts \in RetrainCorpora(th) : trained[k] > 0 /\ TrainBegin(th, k, texts)

NextRetrain ==
    \/ TrainFresh(1, 1)
    \/ Retrain(1, 1)
    \/ MergeRound(1)
    \/ TrainEnd(1)

SpecRetrain == Init /\ [][NextRetrain]_vars

(***************************************************************************)
(* One instance, trained and trained again, then encoding.                 *)
(***************************************************************************)
NextTokenize ==
    \/ TrainSmall(1, 1)
    \/ Retrain(1, 1)
    \/ MergeRound(1)
    \/ TrainEnd(1)
    \/ StartEncode(1, 1)
    \/ EncodeWord(1)
    \/ TokenizeRound(1)
    \/ EncodeEmit(1)
    \/ EncodeReturn(1)

SpecTokenize == Init /\ [][NextTokenize]_vars

(***************************************************************************)
(* Two runs: each thread constructs its own instance and trains it; the    *)
(* first saves its instance and the second loads the file over its own.    *)
(***************************************************************************)
InitRuns ==
    \E vocab_size \in VocabSizes :
        \E other \in {vocab_size, DefaultVocabSize} :
            InitWith(<<vocab_size, other>>, <<"idle", "idle">>)

NextRuns ==
    \/ TrainSmall(1, 1)
    \/ MergeRound(1)
    \/ TrainEnd(1)
    \/ TrainSmall(2, 2)
    \/ MergeRound(2)
    \/ TrainEnd(2)
    \/ SaveTrained(1, 1)
    \/ Load(2, 2)

SpecRuns == InitRuns /\ [][NextRuns]_vars

(***************************************************************************)
(* One instance shared by two threads (app.py:116-136): thread 1 trains    *)
(* it, then calls decode and calculate_compression_ratio on it while       *)
(* thread 2 is inside encode on it.                                        *)
(***************************************************************************)
\* app.py:116: the shared instance is constructed with the default size
InitShared == InitWith(<<DefaultVocabSize, DefaultVocabSize>>, <<"idle", "idle">>)

\* calculate_compression_ratio on the corpus the thread trained on
RatioCorpus(th, k) == trained[k] > 0 /\ Ratio(th, k, fr[th].texts)

\* encode on an instance that was trained
EncodeTrained(th, k) == trained[k] > 0 /\ StartEncode(th, k)

\* decode on an instance that was trained
DecodeTrained(th, k) == trained[k] > 0 /\ DecodeIds(th, k)

NextShared ==
    \/ TrainSmall(1, 1)
    \/ MergeRound(1)
    \/ TrainEnd(1)
    \/ DecodeTrained(1, 1)
    \/ RatioCorpus(1, 1)
    \/ EncodeTrained(2, 1)
    \/ EncodeWord(2)
    \/ TokenizeRound(2)
    \/ EncodeEmit(2)
    \/ EncodeReturn(2)

SpecShared == InitShared /\ [][NextShared]_vars

(***************************************************************************)
(* Properties.                                                             *)
(***************************************************************************)
\* train has returned on thread th and the thread has called nothing since
TrainReturned(th) == fr[th].pc = "idle" /\ ret.op = "train" /\ ret.th = th

\* thread th is inside train, or train has just returned
InOrAfterTrain(th) == fr[th].pc = "train" \/ TrainReturned(th)

\* every byte of text has its symbol in the vocabulary of t
Representable(t, text) ==
    \A c \in Range(ToUnicode(t, text)) : HasKey(t.vocab, <<c>>)

\* C1: whenever evaluate_on_samples encodes and decodes a text all of whose
\* bytes have their symbols in the vocabulary, the decoded text is the text.
RoundTrip ==
    (ret.op = "evaluate" /\ Representable(tok[ret.self], ret.arg))
        => ret.val.decoded_text = ret.arg

\* C2: when train has returned, the vocabulary has as many entries as the base
\* alphabet had symbols plus the number of recorded merges.
VocabularyGrowth ==
    \A th \in Threads :
        TrainReturned(th) =>
            Len(tok[ret.self].vocab) = fr[th].base_size + Len(tok[ret.self].merges)

\* C3 as stated: when train has returned, the merge table has at most
\* vocab_size - base_size entries.
MergeBudget ==
    \A th \in Threads :
        TrainReturned(th) =>
            Len(tok[ret.self].merges) <= tok[ret.self].vocab_size - fr[th].base_size

\* C3 amended: during and after train, the number i of merges the call has
\* appended is at most max(0, vocab_size - base_size), and on an instance
\* trained for the first time the merge table holds exactly those i merges.
MergeBudgetClamped ==
    \A th \in Threads :
        InOrAfterTrain(th) =>
            LET k == fr[th].self
            IN  /\ fr[th].i <= Max2(0, tok[k].vocab_size - fr[th].base_size)
                /\ trained[k] = 1 => Len(tok[k].merges) = fr[th].i

\* train was given a target below the size of the base alphabet and has returned
SmallTargetTrained ==
    /\ TrainReturned(1)
    /\ trained[1] = 1
    /\ tok[1].vocab_size < fr[1].base_size
    /\ tok[1].merges = <<>>

\* C4: during and after train the ids are 0..len(vocab)-1 in insertion order
\* and the tokens distinct; the first base_size tokens are the distinct symbols
\* of the corpus in ascending order; every later token is the concatenation of
\* two tokens with smaller ids.
VocabularyShape ==
    \A th \in Threads :
        InOrAfterTrain(th) =>
            LET k == fr[th].self
                vocab == tok[k].vocab
                base_size == fr[th].base_size
                symbols == Symbols(Preprocess(tok[k], <<>>, fr[th].texts))
            IN  /\ \A j \in 1..Len(vocab) : vocab[j].val = j - 1
                /\ \A j, m \in 1..Len(vocab) : j # m => vocab[j].key # vocab[m].key
                /\ base_size = Cardinality(symbols)
                /\ base_size <= Len(vocab)
                /\ [j \in 1..base_size |-> vocab[j].key] = Ascending(symbols)
                /\ \A j \in (base_size + 1)..Len(vocab) :
                       \E a, b \in 1..(j - 1) : vocab[j].key = vocab[a].key \o vocab[b].key

\* train has returned with merged tokens after a base alphabet of several symbols
MergedTokensLearned ==
    /\ TrainReturned(1)
    /\ fr[1].base_size >= 3
    /\ Len(tok[1].vocab) >= fr[1].base_size + 2

(***************************************************************************)
(* _tokenize_word, step by step.                                           *)
(***************************************************************************)
\* thread th is inside the while loop of _tokenize_word
InTokenize(th) == fr[th].pc = "encode" /\ fr[th].word # None

\* this step is one round of the while loop of _tokenize_word on thread th
TokenizeStep(th) ==
    InTokenize(th) /\ fr'[th].pc = "encode" /\ fr'[th].word # None /\ fr'[th] # fr[th]

\* this step is the return of _tokenize_word on thread th
EmitStep(th) == InTokenize(th) /\ fr'[th].pc = "encode" /\ fr'[th].word = None

\* the adjacent pairs of word that are in the merge table
Mergeable(merges, word) ==
    {<<word[i], word[i + 1]>> : i \in 1..(Len(word) - 1)} \cap Range(merges)

\* the rank of a pair of the merge table: the index of its first entry
Rank(merges, pair) ==
    CHOOSE j \in 1..Len(merges) :
        merges[j] = pair /\ \A m \in 1..(j - 1) : merges[m] # pair

RECURSIVE Picked(_, _, _)
\* position i of word starts an occurrence of pair that a left-to-right pass
\* merges: the pair is at i, and the occurrence at i - 1, if any, was not merged
Picked(word, pair, i) ==
    /\ i \in 1..(Len(word) - 1)
    /\ word[i] = pair[1]
    /\ word[i + 1] = pair[2]
    /\ ~Picked(word, pair, i - 1)

\* word with the picked occurrences of pair replaced by their concatenation
MergedLeftToRight(word, pair) ==
    Join([i \in 1..Len(word) |->
             IF Picked(word, pair, i) THEN <<pair[1] \o pair[2]>>
             ELSE IF Picked(word, pair, i - 1) THEN <<>>
             ELSE <<word[i]>>])

\* C5: each round of _tokenize_word merges the adjacent pair of lowest rank
\* among those in the merge table, at all its non-overlapping occurrences from
\* left to right; the loop stops only on a word of length 1 or one with no
\* adjacent pair in the merge table; with the merge table [(a,a)], 'aaab'
\* ends as [aa, a, b, marker].
PriorityOrdered ==
    [][\A th \in Threads :
          LET merges == tok[fr[th].self].merges
              word == fr[th].word
          IN  /\ TokenizeStep(th) =>
                    \E pair \in Mergeable(merges, word) :
                        /\ \A other \in Mergeable(merges, word) :
                               Rank(merges, pair) <= Rank(merges, other)
                        /\ fr'[th].word = MergedLeftToRight(word, pair)
              /\ EmitStep(th) =>
                    /\ Len(word) = 1 \/ Mergeable(merges, word) = {}
                    /\ (merges = << <<(<<ch.a>>), (<<ch.a>>)>> >>
                            /\ fr[th].text = <<ch.a, ch.a, ch.a, ch.b>>)
                        => word = << <<ch.a, ch.a>>, <<ch.a>>, <<ch.b>>, EOW >>
    ]_vars

\* a round has merged (a,b), of rank 1, to the right of two occurrences of
\* (a,a), of higher rank
LaterPairMergedFirst ==
    /\ InTokenize(1)
    /\ fr[1].rounds = 1
    /\ fr[1].word = << <<ch.a>>, <<ch.a>>, <<ch.a, ch.b>>, EOW >>
    /\ Rank(tok[1].merges, << <<ch.a>>, <<ch.b>> >>) = 1
    /\ << <<ch.a>>, <<ch.a>> >> \in Range(tok[1].merges)

\* the length the word had when _tokenize_word began: its characters and the marker
InitialLen(th) == Len(Join(fr[th].word)) - Len(EOW) + 1

\* C6: each round of _tokenize_word leaves the word strictly shorter, and the
\* rounds run on one word number at most its initial length minus one, whatever
\* the merge table (a table with a pair entered twice included).
RoundsShorten ==
    /\ [](\A th \in Threads :
              InTokenize(th) =>
                  /\ fr[th].rounds + Len(fr[th].word) <= InitialLen(th)
                  /\ fr[th].rounds <= InitialLen(th) - 1)
    /\ [][\A th \in Threads :
              TokenizeStep(th) =>
                  /\ Len(fr'[th].word) < Len(fr[th].word)
                  /\ fr'[th].rounds = fr[th].rounds + 1]_vars

\* with a pair entered twice in the merge table, a word of three symbols was
\* reduced to one token in two rounds
ReducedInMostRounds ==
    /\ InTokenize(1)
    /\ \E j, m \in 1..Len(tok[1].merges) : j # m /\ tok[1].merges[j] = tok[1].merges[m]
    /\ Len(fr[1].word) = 1
    /\ InitialLen(1) = 3
    /\ fr[1].rounds = 2

(***************************************************************************)
(* save and load.                                                          *)
(***************************************************************************)
\* the four pickled fields of data are those of tokenizer t
SameFields(t, data) ==
    /\ data.vocab_size = t.vocab_size
    /\ data.vocab = t.vocab
    /\ data.merges = t.merges
    /\ data.byte_encoder = t.byte_encoder

\* dec maps each value of enc back to its key, and nothing else
IsInverse(dec, enc) ==
    /\ DOMAIN dec = {enc[b] : b \in DOMAIN enc}
    /\ \A b \in DOMAIN enc : dec[enc[b]] = b

\* this step is the return of a call of the method op
Returns(op) == ret' # ret /\ ret'.op = op

\* this step is a load into instance k
LoadStep(k) == Returns("load") /\ ret'.self = k

\* C7: save writes the vocab_size, vocab, merges and byte_encoder of the
\* instance; load makes the four fields of the loading instance those of the
\* file, whatever it held before, and its byte_decoder the inverse of the loaded
\* byte_encoder; the loaded instance then encodes every text and decodes every
\* id list as the instance whose state is in the file.
PersistenceRoundTrip ==
    [][/\ Returns("save") => SameFields(tok[ret'.self], disk'[1])
       /\ \A k \in Instances :
              LoadStep(k) =>
                  /\ SameFields(tok'[k], disk[1])
                  /\ IsInverse(tok'[k].byte_decoder, tok'[k].byte_encoder)
                  /\ \A x \in Instances :
                         SameFields(tok[x], disk[1]) =>
                             /\ tok'[k].byte_decoder = tok[x].byte_decoder
                             /\ \A text \in Texts :
                                    encode(tok'[k], text) = encode(tok[x], text)
                             /\ \A token_ids \in IdLists :
                                    decode(tok'[k], token_ids) = decode(tok[x], token_ids)
    ]_vars

\* instance 2, constructed with another vocab_size and trained on another
\* corpus, from which it learned merges, has loaded the file saved by instance 1
LoadedOverTrained ==
    /\ ret.op = "load"
    /\ ret.self = 2
    /\ trained[2] = 1
    /\ fr[2].i > 0
    /\ fr[2].texts # fr[1].texts
    /\ fr[2].base_size + fr[2].num_merges # tok[2].vocab_size
    /\ tok[1].merges # <<>>
    /\ tok[2] = tok[1]

(***************************************************************************)
(* Two runs of train.                                                      *)
(***************************************************************************)
\* both instances were constructed with one vocab_size and trained once, on
\* one corpus, and neither was loaded
SameRuns ==
    /\ disk = None
    /\ \A k \in Instances : trained[k] = 1
    /\ fr[1].texts = fr[2].texts
    /\ tok[1].vocab_size = tok[2].vocab_size

\* C8: two fresh instances with the same vocab_size trained on the same corpus
\* hold the same vocab and the same merges once both calls have returned (and
\* whenever both calls have run the same number of merge rounds).
Determinism ==
    SameRuns =>
        /\ (Idle(1) /\ Idle(2)) => fr[1].i = fr[2].i
        /\ fr[1].i = fr[2].i =>
               /\ tok[1].vocab = tok[2].vocab
               /\ tok[1].merges = tok[2].merges
               /\ fr[1].word_freqs = fr[2].word_freqs

\* two runs on one corpus of at least three symbols have both returned,
\* with merges learned
BothRunsReturned ==
    /\ SameRuns
    /\ Idle(1)
    /\ Idle(2)
    /\ fr[1].base_size >= 3
    /\ tok[1].merges # <<>>
    /\ tok[2].merges # <<>>

(***************************************************************************)
(* Calls on a shared instance.                                             *)
(***************************************************************************)
\* this step belongs to a call of encode, decode or calculate_compression_ratio
ReadStep ==
    \/ \E th \in Threads :
           fr'[th] # fr[th] /\ (fr[th].pc = "encode" \/ fr'[th].pc = "encode")
    \/ Returns("decode")
    \/ Returns("calculate_compression_ratio")

\* C9: no step of encode, decode or calculate_compression_ratio changes a field
\* of an instance, and a call that returns while other calls run on the same
\* instance returns what the call returns on that instance run alone.
ReadOnlyCalls ==
    [][/\ ReadStep => tok' = tok
       /\ Returns("encode") => ret'.val = encode(tok[ret'.self], ret'.arg)
       /\ Returns("decode") => ret'.val = decode(tok[ret'.self], ret'.arg)
       /\ Returns("calculate_compression_ratio") =>
              ret'.val = calculate_compression_ratio(tok[ret'.self], ret'.arg)
    ]_vars

\* thread 1 has decoded on the instance on which thread 2 is inside
\* _tokenize_word, a merge round done
DecodedDuringEncode ==
    /\ InTokenize(2)
    /\ fr[2].rounds >= 1
    /\ ret.op = "decode"
    /\ ret.th = 1
    /\ ret.self = fr[2].self
    /\ ret.val # <<>>

(***************************************************************************)
(* decode of ids that are not in the vocabulary.                           *)
(***************************************************************************)
\* the ids of token_ids that have a vocabulary entry, in order
KnownIds(vocab, token_ids) ==
    LET Known(n) == \E j \in 1..Len(vocab) : vocab[j].val = n
    IN  SelectSeq(token_ids, Known)

\* C10: decode returns what it returns for the id list with the ids that have
\* no vocabulary entry removed, and the empty string when no id has an entry.
DecodeSkipsUnknown ==
    ret.op = "decode" =>
        LET vocab == tok[ret.self].vocab
        IN  /\ ret.val = decode(tok[ret.self], KnownIds(vocab, ret.arg))
            /\ KnownIds(vocab, ret.arg) = <<>> => ret.val = <<>>

\* decode was given an unknown id followed by a known one and returned a
\* text that is not empty
UnknownIdSkipped ==
    /\ ret.op = "decode"
    /\ Len(ret.arg) = 2
    /\ KnownIds(tok[ret.self].vocab, ret.arg) = <<ret.arg[2]>>
    /\ ret.val # <<>>

(***************************************************************************)
(* encode of tokens that are not in the vocabulary.                        *)
(***************************************************************************)
\* the id of a key of vocab
IdOf(vocab, key) == vocab[CHOOSE j \in 1..Len(vocab) : vocab[j].key = key].val

\* the symbols a token was merged from: its characters, and the marker the
\* word ended with when the token holds the end of the word
SymbolsOf(token) ==
    LET n == Len(token) - Len(EOW)
    IN  IF n >= 0 /\ SubSeq(token, n + 1, Len(token)) = EOW
        THEN [j \in 1..n |-> <<token[j]>>] \o <<EOW>>
        ELSE [j \in 1..Len(token) |-> <<token[j]>>]

\* the ids of the symbols of token that are vocabulary keys, in order
SymbolIds(vocab, token) ==
    LET InVocab(symbol) == HasKey(vocab, symbol)
        kept == SelectSeq(SymbolsOf(token), InVocab)
    IN  [j \in 1..Len(kept) |-> IdOf(vocab, kept[j])]

\* the ids of the tokens of one word: the token's id, or those of its symbols
WordIds(vocab, tokens) ==
    Join([j \in 1..Len(tokens) |->
             IF HasKey(vocab, tokens[j]) THEN <<IdOf(vocab, tokens[j])>>
             ELSE SymbolIds(vocab, tokens[j])])

\* C11: encode returns, token by token, the id of the token when it is a
\* vocabulary key and otherwise the ids of those of its symbols that are
\* vocabulary keys, in order; every id returned is an id of the vocabulary.
FallbackBySymbol ==
    ret.op = "encode" =>
        LET t == tok[ret.self]
            words == findall(ToUnicode(t, ret.arg))
        IN  /\ ret.val = Join([j \in 1..Len(words) |->
                                  WordIds(t.vocab, _tokenize_word(t, words[j]))])
            /\ \A j \in 1..Len(ret.val) :
                   \E m \in 1..Len(t.vocab) : t.vocab[m].val = ret.val[j]

(***************************************************************************)
(* The merge rounds of train.                                              *)
(***************************************************************************)
\* this step is one merge round of train on thread th
TrainRoundStep(th) ==
    fr[th].pc = "train" /\ fr'[th].pc = "train" /\ fr'[th].i = fr[th].i + 1

\* the pair the round of this step appended to the merge table
Selected(th) ==
    LET merges == tok'[fr[th].self].merges IN merges[Len(merges)]

\* the positions of word at which pair occurs, overlapping ones included
Occurrences(word, pair) ==
    {i \in 1..(Len(word) - 1) : word[i] = pair[1] /\ word[i + 1] = pair[2]}

\* the aggregate frequency of pair: occurrences times word count, over the words
PairFrequency(word_freqs, pair) ==
    Sum([j \in 1..Len(word_freqs) |->
            Cardinality(Occurrences(word_freqs[j].key, pair)) * word_freqs[j].val])

\* the adjacent pairs of the words of the table
AdjacentPairs(word_freqs) ==
    UNION {{<<word_freqs[j].key[i], word_freqs[j].key[i + 1]>> :
               i \in 1..(Len(word_freqs[j].key) - 1)} : j \in 1..Len(word_freqs)}

\* where pair is first met scanning the words in table order and the
\* positions from the left: the word's index and the position in it
FirstSeen(word_freqs, pair) ==
    LET j == CHOOSE j \in 1..Len(word_freqs) :
                 /\ Occurrences(word_freqs[j].key, pair) # {}
                 /\ \A m \in 1..(j - 1) : Occurrences(word_freqs[m].key, pair) = {}
        i == CHOOSE i \in Occurrences(word_freqs[j].key, pair) :
                 \A m \in Occurrences(word_freqs[j].key, pair) : i <= m
    IN  <<j, i>>

\* position p comes before position q in the scan
Before(p, q) == p[1] < q[1] \/ (p[1] = q[1] /\ p[2] < q[2])

\* C12: every pair train appends to the merge table has aggregate frequency
\* at least 2 in the word table of the round that selected it.
EarlyStop ==
    [][\A th \in Threads :
          TrainRoundStep(th) =>
              PairFrequency(fr[th].word_freqs, Selected(th)) >= 2]_vars

\* C13: the pair a merge round appends has the greatest aggregate frequency
\* over the word table, and among the pairs of that frequency it is the one
\* met first scanning the words in table order, positions left to right; the
\* first round on the corpus ['aa', 'aaab'] selects (a,a), of frequency 3.
MostFrequentFirst ==
    [][\A th \in Threads :
          TrainRoundStep(th) =>
              LET word_freqs == fr[th].word_freqs
                  pair == Selected(th)
              IN  /\ pair \in AdjacentPairs(word_freqs)
                  /\ \A other \in AdjacentPairs(word_freqs) \ {pair} :
                        \/ PairFrequency(word_freqs, other) < PairFrequency(word_freqs, pair)
                        \/ /\ PairFrequency(word_freqs, other) = PairFrequency(word_freqs, pair)
                           /\ Before(FirstSeen(word_freqs, pair), FirstSeen(word_freqs, other))
                  /\ (fr[th].i = 0 /\ fr[th].texts = <<(<<ch.a, ch.a>>), <<ch.a, ch.a, ch.a, ch.b>>>>)
                        => /\ pair = << <<ch.a>>, <<ch.a>> >>
                           /\ PairFrequency(word_freqs, pair) = 3
    ]_vars

\* train on ['aa', 'aaab'] with a target of the base size plus one has
\* returned with the single merge (a,a) and the token 'aa'
ScenarioOneTrained ==
    /\ TrainReturned(1)
    /\ trained[1] = 1
    /\ fr[1].texts = <<(<<ch.a, ch.a>>), <<ch.a, ch.a, ch.a, ch.b>>>>
    /\ tok[1].vocab_size = fr[1].base_size + 1
    /\ tok[1].merges = << << <<ch.a>>, <<ch.a>> >> >>
    /\ HasKey(tok[1].vocab, <<ch.a, ch.a>>)

(***************************************************************************)
(* Segmentation.                                                           *)
(***************************************************************************)
\* the whitespace bytes of a text
IsSpaceByte(b) == b \in {9, 10, 11, 12, 13, 32}

\* index j starts a maximal run of whitespace or of non-whitespace bytes of bs
StartsRun(bs, j) == j = 1 \/ IsSpaceByte(bs[j]) # IsSpaceByte(bs[j - 1])

\* the last index of the run of bs that starts at j
EndOfRun(bs, j) ==
    CHOOSE e \in j..Len(bs) :
        /\ \A m \in (j + 1)..e : ~StartsRun(bs, m)
        /\ e = Len(bs) \/ StartsRun(bs, e + 1)

RECURSIVE RunsFrom(_, _)
\* the maximal runs of bs from index j on, in order
RunsFrom(bs, j) ==
    IF j > Len(bs) THEN <<>>
    ELSE <<SubSeq(bs, j, EndOfRun(bs, j))>> \o RunsFrom(bs, EndOfRun(bs, j) + 1)

\* the words of a text: the symbols of each maximal run of its bytes
ExpectedWords(t, text) ==
    LET runs == RunsFrom(utf8_encode(text), 1)
    IN  [k \in 1..Len(runs) |-> [j \in 1..Len(runs[k]) |-> t.byte_encoder[runs[k][j]]]]

\* C14: encode splits its text, and train each text of its corpus, into one
\* word per maximal run of whitespace bytes and one per maximal run of other
\* bytes, so a text with both kinds of bytes gives more than one word.
WhitespaceSegmentation ==
    \A th \in Threads :
        LET t == tok[fr[th].self]
        IN  /\ fr[th].pc = "encode" =>
                  findall(ToUnicode(t, fr[th].text)) = ExpectedWords(t, fr[th].text)
            /\ (fr[th].pc = "train" /\ fr[th].i = 0) =>
                  \A j \in 1..Len(fr[th].texts) :
                      LET words == ExpectedWords(t, fr[th].texts[j])
                      IN  \A k \in 1..Len(words) :
                              HasKey(fr[th].word_freqs, WordTuple(words[k]))

(***************************************************************************)
(* The end-of-word marker.                                                 *)
(***************************************************************************)
\* the indices of the string s at which the marker string begins
MarkerAt(s) ==
    {p \in 1..(Len(s) - Len(EOW) + 1) : SubSeq(s, p, p + Len(EOW) - 1) = EOW}

\* the marker is the last element of word and occurs nowhere else in the
\* concatenation of its elements
MarkerOnlyLast(word) ==
    /\ word # <<>>
    /\ word[Len(word)] = EOW
    /\ MarkerAt(Join(word)) = {Len(Join(word)) - Len(EOW) + 1}

\* C15: in every state of train and of _tokenize_word, the marker string
\* occurs in the concatenation of a word's elements only as the element that
\* segmentation appended, never formed from the bytes of the input.
MarkerDisjoint ==
    \A th \in Threads :
        /\ fr[th].pc = "train" =>
               \A j \in 1..Len(fr[th].word_freqs) :
                   MarkerAt(Join(fr[th].word_freqs[j].key))
                       = {Len(Join(fr[th].word_freqs[j].key)) - Len(EOW) + 1}
        /\ (InTokenize(th) /\ fr[th].rounds = 0) => MarkerOnlyLast(fr[th].word)
        /\ InTokenize(th) =>
               MarkerAt(Join(fr[th].word)) = {Len(Join(fr[th].word)) - Len(EOW) + 1}

(***************************************************************************)
(* train and _tokenize_word on the words of the corpus.                    *)
(***************************************************************************)
\* the words segmented from the corpus of the train call of thread th
CorpusWords(th) ==
    UNION {Range(findall(ToUnicode(tok[fr[th].self], fr[th].texts[j]))) :
               j \in 1..Len(fr[th].texts)}

\* the sequence that word has in the word table of the train call of thread th
TrainedAs(th, word) ==
    LET word_freqs == fr[th].word_freqs
    IN  word_freqs[CHOOSE j \in 1..Len(word_freqs) :
                       Join(word_freqs[j].key) = Join(WordTuple(word))].key

\* every word of the corpus is tokenized as train left it in its word table
AgreesWithTraining(th) ==
    \A word \in CorpusWords(th) :
        _tokenize_word(tok[fr[th].self], word) = TrainedAs(th, word)

\* C16: when train has returned, _tokenize_word with the instance's merge
\* table gives every word of the training corpus the sequence the word has in
\* train's word table after the last merge round.
TrainingInferenceAgreement ==
    \A th \in Threads : TrainReturned(th) => AgreesWithTraining(th)

\* the same agreement on the instances that were trained once only
FreshTrainingInferenceAgreement ==
    \A th \in Threads :
        (TrainReturned(th) /\ trained[fr[th].self] = 1) => AgreesWithTraining(th)

(***************************************************************************)
(* train on an instance that was trained before.                           *)
(***************************************************************************)
RECURSIVE TrainLoop(_, _)
\* lines 136-156: the merge loop run to its end from tokenizer t and frame f
TrainLoop(t, f) ==
    IF LoopGoesOn(f)
    THEN LET best_pair == MaxKey(_get_stats(f.word_freqs))
         IN  TrainLoop(Learn(t, best_pair),
                       [f EXCEPT !.word_freqs = _merge_vocab(best_pair, @), !.i = @ + 1])
    ELSE t

\* BPETokenizer(vocab_size).train(texts): the instance a fresh one becomes
FreshlyTrained(vocab_size, texts) ==
    LET word_freqs == Preprocess(New(vocab_size), <<>>, texts)
        vocab == BaseVocab(Ascending(Symbols(word_freqs)))
    IN  TrainLoop([New(vocab_size) EXCEPT !.vocab = vocab],
                  [NoFrame EXCEPT !.word_freqs = word_freqs,
                                  !.num_merges = vocab_size - Len(vocab)])

\* C17: when train has returned, on an instance trained before or not, vocab
\* and merges are those of a fresh instance of the same vocab_size trained
\* once on the same corpus, and the merge table has at most
\* max(0, vocab_size - base_size) entries.
TrainReplaces ==
    \A th \in Threads :
        TrainReturned(th) =>
            LET t == tok[fr[th].self]
                fresh == FreshlyTrained(t.vocab_size, fr[th].texts)
            IN  /\ t.vocab = fresh.vocab
                /\ t.merges = fresh.merges
                /\ Len(t.merges) <= Max2(0, t.vocab_size - fr[th].base_size)

====
